---- MODULE Spec2Model ----
(***************************************************************************)
(* Model of the stochastic room-impulse-response generator (stoRIR-rs).    *)
(*                                                                         *)
(* Two generators exist in the crate and both are modelled, selected by    *)
(* the variable `variant`:                                                 *)
(*   "basic"    - ImpulseResponse          (src/src/lib.rs)                *)
(*   "improved" - ImpulseResponseImproved  (src/src/improved.rs)           *)
(*                                                                         *)
(* One call `new(..)` followed by one call `generate(sample_rate)` is      *)
(* modelled as a sequential process whose position is `pc`.                *)
(*                                                                         *)
(* Number representation                                                   *)
(*   - millisecond arguments (f32) are integers in tenths of a ms;         *)
(*   - a buffer is a sequence; sample i of the code is data[i+1];          *)
(*   - in the dB domain a sample is an integer numerator over the common   *)
(*     denominator edt_num_samples * rt60_num_samples (exact rationals);   *)
(*   - a gain 10^(x/20) is a fixed-point number in units of 1/GainOne,     *)
(*     halving every HalvingDb dB, at least 1 (it is never 0: 10^x > 0);   *)
(*   - a DRR value 10*log10(direct/reverberant) is kept as the pair        *)
(*     (direct, reverberant) and compared as a ratio; direct/0 with        *)
(*     direct > 0 is +infinity, 0/0 is NaN, 0/r is -infinity.              *)
(***************************************************************************)
EXTENDS Integers, Sequences, FiniteSets

VARIABLES
    variant,        \* which generator struct is used
    args,           \* the constructor arguments (rt60, edt, itdg, er_duration, drr)
    sample_rate,    \* argument of generate
    pc,             \* position of the call sequence new(); generate()
    allocated,      \* TRUE once get_noise has allocated the buffer
    data,           \* the sample buffer `noise` / `data`
    dsi,            \* direct_sound_idx
    ersi,           \* early_ref_start
    erei,           \* early_ref_end
    current_drr,    \* local current_drr of randomize_reflections
    iterations,     \* number of loop bodies of randomize_reflections entered
    thin_calls,     \* number of calls of thin_out_reflections made
    head_rays,      \* history: nonzero samples after dsi when the loop body was entered
    shaped,         \* history: the buffer as get_edt_and_rt60_slope left it
    gapped,         \* history: the buffer as create_initial_time_delay_gap left it
    result          \* the Vec returned by generate

vars == <<variant, args, sample_rate, pc, allocated, data, dsi, ersi, erei,
          current_drr, iterations, thin_calls, head_rays, shaped, gapped, result>>

----------------------------------------------------------------------------
(* Bounds of the model and the input sets.                                 *)

\* largest rt60 argument, in ms
MaxRt60Ms == 9

Variants == {"basic", "improved"}

\* rt60 [tenths of ms]
Rt60Values == {10 * k : k \in 1..MaxRt60Ms}

\* edt [tenths of ms]: 0.4 ms rounds to 0 ms
EdtValues == {4, 10, 20, 40}

\* itdg [tenths of ms]
ItdgValues == {0, 10}

\* er_duration [tenths of ms]
ErDurationValues == {10, 30, 200}

\* sample rates [Hz]: at 250 Hz a 1 ms duration is 0 samples
SampleRates == {250, 1000}

\* unscaled noise samples, a subset of the range [-5, 5) of get_noise
NoiseValues == {0, 1}

\* largest number of samples of a noise buffer that take the upper value
MaxLoud == 2

\* drr [dB], given by the two ratios 10^((drr -+ 0.5)/10) it is compared with:
\* drr_low = drr - 0.5 is lowN/lowD and drr_high = drr + 0.5 is highN/highD
\* (10^0.1 = 1.2589...; no ratio of two buffer sums lies between the
\* irrational bound and the four-digit value used for it).
DrrValues ==
    { [db |-> "-9.5", lowN |-> 1,    lowD |-> 10, highN |-> 1259, highD |-> 10000],
      [db |-> "0.5",  lowN |-> 1,    lowD |-> 1,  highN |-> 1259, highD |-> 1000],
      [db |-> "30.5", lowN |-> 1000, lowD |-> 1,  highN |-> 1259, highD |-> 1] }

----------------------------------------------------------------------------
(* Helpers on buffers.                                                     *)

Min(a, b) == IF a <= b THEN a ELSE b

\* data[i] of the code (0-based)
At(d, i) == d[i + 1]

RECURSIVE SumRange(_, _, _)
\* sum of d[lo..hi] (0-based, inclusive); 0 for an empty range
SumRange(d, lo, hi) ==
    IF lo > hi THEN 0 ELSE At(d, lo) + SumRange(d, lo + 1, hi)

\* the number of samples of d equal to v
Count(d, v) == Cardinality({i \in 1..Len(d) : d[i] = v})

\* the noise buffers of length n: every sample is one of NoiseValues and at
\* most MaxLoud of them take the upper value
NoiseBuffers(n) == {d \in [1..n -> NoiseValues] : Count(d, 1) <= MaxLoud}

----------------------------------------------------------------------------
(* Numeric conversions.                                                    *)

\* `x.round() as u64` of a non-negative f32 given in tenths: half away from zero
RoundMs(t) == (2 * t + 10) \div 20

\* get_num_samples(Duration::from_millis(ms), sample_rate):
\* (ms / 1000 * sample_rate).round()
GetNumSamples(ms, sr) == (2 * ms * sr + 1000) \div 2000

\* the three sample counts get_edt_and_rt60_slope derives from the arguments
EdtNumSamples(a, sr) == GetNumSamples(RoundMs(a.edt), sr)
Rt60NumSamples(a, sr) == GetNumSamples(RoundMs(a.rt60), sr)
ErDurationNumSamples(a, sr) == GetNumSamples(RoundMs(a.er_duration), sr)

\* the representation of the gain 1.0
GainOne == 64

\* dB per halving of the gain (10^(-6.02/20) = 1/2)
HalvingDb == 6

RECURSIVE Halve(_, _)
\* g halved k times
Halve(g, k) == IF k = 0 \/ g = 0 THEN g ELSE Halve(g \div 2, k - 1)

\* decibels_to_gain(x / den) for x <= 0, i.e. 10^(dB/20) in units of
\* 1/GainOne: halved once per HalvingDb dB, linear between two halvings,
\* rounded down but never to 0 (10^y > 0).  It is GainOne exactly at 0 dB
\* and smaller below, as the f32 value is.
DecibelsToGain(x, den) ==
    LET q   == HalvingDb * den
        k   == (0 - x) \div q
        rem == (0 - x) % q
        g   == (Halve(GainOne, k) * (2 * q - rem)) \div (2 * q)
    IN  IF g < 1 THEN 1 ELSE g

\* the value a sample takes in `*value = gain * gain` / `x.powi(2)`
Energy(x, den) == DecibelsToGain(x, den) * DecibelsToGain(x, den)

----------------------------------------------------------------------------
(* get_edt_and_rt60_slope.                                                 *)

\* lines "Shape the EDT slope": data[i] -= i below edt-1, -= edt-1 from there on
EdtSlope(d, e) == [i \in 1..Len(d) |-> d[i] - Min(i - 1, e - 1)]

\* `*= 10 / edt` and the RT60 slope, as numerators over the denominator e * r:
\* v * 10 / e - (i - (e + 1)) * 50 / r  =  (v*10*r - (i - (e+1))*50*e) / (e*r)
Rt60Slope(d, e, r) ==
    [i \in 1..Len(d) |->
        d[i] * 10 * r
          - (IF i - 1 >= e /\ i - 1 < r THEN ((i - 1) - (e + 1)) * 50 * e ELSE 0)]

\* fold(f32::MIN, f32::max) / data.max(): the largest sample
MaxOf(d) == CHOOSE m \in {d[i] : i \in 1..Len(d)} : \A i \in 1..Len(d) : d[i] <= m

\* "Change scale to dBFS", then dB to gain, then squared
ToEnergy(d, den) ==
    [i \in 1..Len(d) |-> Energy(d[i] - MaxOf(d), den)]

RECURSIVE MaxByFrom(_, _, _)
\* Iterator::max_by: the fold keeps the accumulated element only when it
\* compares Greater than the next one
MaxByFrom(d, i, best) ==
    IF i >= Len(d) THEN best
    ELSE MaxByFrom(d, i + 1, IF At(d, best) > At(d, i) THEN best ELSE i)

\* data.iter().enumerate().max_by(..).map(|(i, _)| i).unwrap_or(0)
DirectSoundIdx(d) == IF Len(d) = 0 THEN 0 ELSE MaxByFrom(d, 1, 0)

\* min(x, data.len() - 1) where data.len() >= 1
ClampToLast(x, n) == Min(x, n - 1)

\* er_start_idx without the `+ 1`: the window would start on the direct sound
ErStartIdxOnDirect(ds, n) == ClampToLast(ds, n)

\* er_start_idx
ErStartIdx(ds, n) == ClampToLast(ds + 1, n)

\* er_end_idx
ErEndIdx(es, ers, n) == ClampToLast(es + ers, n)

PanicOutcome == [panic |-> TRUE, data |-> <<>>, dsi |-> 0, ersi |-> 0, erei |-> 0]

\* The set of outcomes of get_edt_and_rt60_slope(data, sample_rate).
\*  - edt_num_samples = 0: `edt_num_samples - 1` underflows u32; with overflow
\*    checks it panics there, without them it wraps and data[i] panics at
\*    i = data.len(): a panic in every build.
\*  - edt_num_samples - 1 > data.len(): data[i] -= i indexes past the end.
\*  - data.len() = 0: `data.len() - 1` underflows usize: a panic with overflow
\*    checks, usize::MAX without them (min(x, usize::MAX) = x).
GetEdtAndRt60Slope(d, a, sr) ==
    LET e   == EdtNumSamples(a, sr)
        r   == Rt60NumSamples(a, sr)
        ers == ErDurationNumSamples(a, sr)
        n   == Len(d)
    IN  IF e = 0 \/ e - 1 > n THEN {PanicOutcome}
        ELSE IF n = 0
        THEN {PanicOutcome,
              [panic |-> FALSE, data |-> d, dsi |-> 0, ersi |-> 1, erei |-> 1 + ers]}
        ELSE LET en == ToEnergy(Rt60Slope(EdtSlope(d, e), e, r), e * r)
                 ds == DirectSoundIdx(en)
                 es == ErStartIdx(ds, n)
             IN  {[panic |-> FALSE, data |-> en, dsi |-> ds, ersi |-> es,
                   erei |-> ErEndIdx(es, ers, n)]}

----------------------------------------------------------------------------
(* randomize_reflections and its helpers.                                  *)

\* itdg_num_samples of create_initial_time_delay_gap:
\*   improved: get_num_samples(Duration::from_millis(itdg.round()), sample_rate)
\*   basic:    (self.itdg * sampling_rate as f32).round(), itdg taken in ms
ItdgNumSamples(v, a, sr) ==
    IF v = "improved" THEN GetNumSamples(RoundMs(a.itdg), sr)
    ELSE (2 * a.itdg * sr + 10) \div 20

\* itdg_end_idx = min(direct_sound_idx + 1 + itdg_num_samples, data.len() - 1);
\* with an empty buffer data.len() - 1 has wrapped to usize::MAX
ItdgEndIdx(ds, k, n) == IF n = 0 THEN ds + 1 + k ELSE ClampToLast(ds + 1 + k, n)

\* the gap with an inclusive end: zero the samples ds+1 ..= itdg_end_idx
CreateGapInclusive(d, ds, k) ==
    [i \in 1..Len(d) |->
        IF ds + 1 <= i - 1 /\ i - 1 <= ItdgEndIdx(ds, k, Len(d)) THEN 0 ELSE d[i]]

\* create_initial_time_delay_gap: zero the samples ds+1 .. itdg_end_idx-1
\* (slice ds+1..itdg_end_idx / take(itdg_end_idx).skip(ds+1): end exclusive)
CreateInitialTimeDelayGap(d, ds, k) ==
    [i \in 1..Len(d) |->
        IF ds + 1 <= i - 1 /\ i - 1 < ItdgEndIdx(ds, k, Len(d)) THEN 0 ELSE d[i]]

\* calculate_drr_energy_ratio: the two sums whose ratio is taken
CalculateDrrEnergyRatio(d, ds) ==
    [direct      |-> SumRange(d, 0, Min(ds, Len(d) - 1)),
     reverberant |-> SumRange(d, ds + 1, Len(d) - 1)]

\* the f32 classes of 10 * log10(direct / reverberant)
IsNaN(c) == c.direct = 0 /\ c.reverberant = 0
IsPosInf(c) == c.direct > 0 /\ c.reverberant = 0
IsNegInf(c) == c.direct = 0 /\ c.reverberant > 0
IsFinite(c) == c.direct > 0 /\ c.reverberant > 0

\* c > 10*log10(num/den) as f32 comparison (false for NaN)
DrrGreaterThan(c, num, den) ==
    IsPosInf(c) \/ (IsFinite(c) /\ c.direct * den > num * c.reverberant)

\* 10*log10(num/den) > c as f32 comparison (false for NaN)
DrrLessThan(c, num, den) ==
    IsNegInf(c) \/ (IsFinite(c) /\ c.direct * den < num * c.reverberant)

\* `if current_drr > drr_high { return; }`
AboveHigh(c, a) == DrrGreaterThan(c, a.drr.highN, a.drr.highD)

\* the loop test taken against drr_high: `while drr_high > current_drr`
LoopGuardHigh(c, a) == DrrLessThan(c, a.drr.highN, a.drr.highD)

\* `while drr_low > current_drr`
LoopGuard(c, a) == DrrLessThan(c, a.drr.lowN, a.drr.lowD)

\* `(previous_drr - current_drr).abs() < f32::EPSILON`: inf - inf is NaN and
\* every comparison with NaN or an infinity on the left of `<` is false
Converged(prev, cur) ==
    IsFinite(prev) /\ IsFinite(cur)
      /\ prev.direct * cur.reverberant = cur.direct * prev.reverberant

\* ray_indices: the nonzero samples of start_idx..=end_idx
RayIndices(d, start, end) == {i \in start..end : i < Len(d) /\ At(d, i) # 0}

\* (ray_indices.len() as f32 * rate).round(): half away from zero
NumRays(k, rateN, rateD) == (2 * k * rateN + rateD) \div (2 * rateD)

\* the buffer with the samples of S set to 0.0
Zeroed(d, S) == [i \in 1..Len(d) |-> IF (i - 1) \in S THEN 0 ELSE d[i]]

\* The set of outcomes of thin_out_reflections(data, start, end, rate):
\*  - data[idx] panics when the range reaches past the buffer;
\*  - basic: assert!(num_rays >= 1) panics; improved: `if num_rays >= 1`;
\*  - choose_multiple returns any subset of min(num_rays, len) distinct rays.
ThinOutReflections(v, d, start, end, rateN, rateD) ==
    LET rays == RayIndices(d, start, end)
        num  == NumRays(Cardinality(rays), rateN, rateD)
    IN  IF start <= end /\ end >= Len(d) THEN {[panic |-> TRUE, data |-> d]}
        ELSE IF num < 1
        THEN (IF v = "basic" THEN {[panic |-> TRUE, data |-> d]}
              ELSE {[panic |-> FALSE, data |-> d]})
        ELSE {[panic |-> FALSE, data |-> Zeroed(d, S)] :
                S \in {T \in SUBSET rays : Cardinality(T) = Min(num, Cardinality(rays))}}

\* `noise[dsi..].to_vec()`
SliceFrom(d, ds) == SubSeq(d, ds + 1, Len(d))

----------------------------------------------------------------------------
(* The call sequence `new(rt60, edt, itdg, er_duration, drr)` then         *)
(* `generate(sample_rate)`.                                                *)

\* the value of current_drr before its first assignment
NoDrr == [direct |-> -1, reverberant |-> -1]

ArgsSet ==
    [rt60 : Rt60Values, edt : EdtValues, itdg : ItdgValues,
     er_duration : ErDurationValues, drr : DrrValues]

Init ==
    /\ variant \in Variants
    /\ args \in ArgsSet
    /\ sample_rate \in SampleRates
    /\ pc = "start"
    /\ allocated = FALSE
    /\ data = <<>>
    /\ dsi = 0
    /\ ersi = 0
    /\ erei = 0
    /\ current_drr = NoDrr
    /\ iterations = 0
    /\ thin_calls = 0
    /\ head_rays = 0
    /\ shaped = <<>>
    /\ gapped = <<>>
    /\ result = <<>>

\* the constructor's check: ImpulseResponseImproved::new panics when
\* rt60 <= edt; ImpulseResponse::new has no check
NewRejects(v, a) == v = "improved" /\ a.rt60 <= a.edt

\* new(..)
New ==
    /\ pc = "start"
    /\ pc' = IF NewRejects(variant, args) THEN "config_error" ELSE "constructed"
    /\ UNCHANGED <<variant, args, sample_rate, allocated, data, dsi, ersi, erei,
                   current_drr, iterations, thin_calls, head_rays, shaped, gapped, result>>

\* generate, line 1: get_noise allocates round(rt60) ms of samples
GetNoise ==
    /\ pc = "constructed"
    /\ \E d \in NoiseBuffers(Rt60NumSamples(args, sample_rate)) :
           data' = d
    /\ allocated' = TRUE
    /\ pc' = "noise"
    /\ UNCHANGED <<variant, args, sample_rate, dsi, ersi, erei, current_drr,
                   iterations, thin_calls, head_rays, shaped, gapped, result>>

\* generate, line 2: get_edt_and_rt60_slope
ShapeEnvelope ==
    /\ pc = "noise"
    /\ \E o \in GetEdtAndRt60Slope(data, args, sample_rate) :
          IF o.panic
          THEN /\ pc' = "panicked"
               /\ UNCHANGED <<data, dsi, ersi, erei, shaped>>
          ELSE /\ pc' = "shaped"
               /\ data' = o.data
               /\ dsi' = o.dsi
               /\ ersi' = o.ersi
               /\ erei' = o.erei
               /\ shaped' = o.data
    /\ UNCHANGED <<variant, args, sample_rate, allocated, current_drr,
                   iterations, thin_calls, head_rays, gapped, result>>

\* randomize_reflections: create_initial_time_delay_gap
CreateGap ==
    /\ pc = "shaped"
    /\ data' = CreateInitialTimeDelayGap(
                   data, dsi, ItdgNumSamples(variant, args, sample_rate))
    /\ gapped' = data'
    /\ pc' = "gapped"
    /\ UNCHANGED <<variant, args, sample_rate, allocated, dsi, ersi, erei,
                   current_drr, iterations, thin_calls, head_rays, shaped, result>>

\* randomize_reflections: the first calculate_drr_energy_ratio and
\* `if current_drr > drr_high { return; }`
MeasureDrr ==
    /\ pc = "gapped"
    /\ current_drr' = CalculateDrrEnergyRatio(data, dsi)
    /\ pc' = IF AboveHigh(current_drr', args) THEN "done" ELSE "loop"
    /\ UNCHANGED <<variant, args, sample_rate, allocated, data, dsi, ersi, erei,
                   iterations, thin_calls, head_rays, shaped, gapped, result>>

\* the while test fails: randomize_reflections returns
ExitLoop ==
    /\ pc = "loop"
    /\ ~LoopGuard(current_drr, args)
    /\ pc' = "done"
    /\ UNCHANGED <<variant, args, sample_rate, allocated, data, dsi, ersi, erei,
                   current_drr, iterations, thin_calls, head_rays, shaped, gapped, result>>

\* the while test holds: "Thin out early reflections", rate 1/8
ThinEarly ==
    /\ pc = "loop"
    /\ LoopGuard(current_drr, args)
    /\ iterations' = iterations + 1
    /\ thin_calls' = thin_calls + 1
    /\ head_rays' = Cardinality(RayIndices(data, dsi + 1, Len(data) - 1))
    /\ \E o \in ThinOutReflections(variant, data, ersi, erei, 1, 8) :
          /\ data' = o.data
          /\ pc' = IF o.panic THEN "panicked" ELSE "thin_tail"
    /\ UNCHANGED <<variant, args, sample_rate, allocated, dsi, ersi, erei,
                   current_drr, shaped, gapped, result>>

\* "Thin out reverberation tail", rate 1/10
ThinTail ==
    /\ pc = "thin_tail"
    /\ thin_calls' = thin_calls + 1
    /\ \E o \in ThinOutReflections(variant, data, erei, Len(data) - 1, 1, 10) :
          /\ data' = o.data
          /\ pc' = IF o.panic THEN "panicked" ELSE "recompute"
    /\ UNCHANGED <<variant, args, sample_rate, allocated, dsi, ersi, erei,
                   current_drr, iterations, head_rays, shaped, gapped, result>>

\* previous_drr = current_drr; current_drr = calculate_drr_energy_ratio(..);
\* break when the two differ by less than f32::EPSILON
RecomputeDrr ==
    /\ pc = "recompute"
    /\ current_drr' = CalculateDrrEnergyRatio(data, dsi)
    /\ pc' = IF Converged(current_drr, current_drr') THEN "done" ELSE "loop"
    /\ UNCHANGED <<variant, args, sample_rate, allocated, data, dsi, ersi, erei,
                   iterations, thin_calls, head_rays, shaped, gapped, result>>

\* generate, last line: noise[dsi..].to_vec()
ReturnSlice ==
    /\ pc = "done"
    /\ result' = SliceFrom(data, dsi)
    /\ pc' = "returned"
    /\ UNCHANGED <<variant, args, sample_rate, allocated, data, dsi, ersi, erei,
                   current_drr, iterations, thin_calls, head_rays, shaped, gapped>>

Next ==
    \/ New
    \/ GetNoise
    \/ ShapeEnvelope
    \/ CreateGap
    \/ MeasureDrr
    \/ ExitLoop
    \/ ThinEarly
    \/ ThinTail
    \/ RecomputeDrr
    \/ ReturnSlice

Spec == Init /\ [][Next]_vars

----------------------------------------------------------------------------
(* Claims.  The formulas below state the claims with their own arithmetic; *)
(* they do not call the operators that model the code.                     *)

\* the positions of generate at which the shaped buffer and the window exist
AfterShaping ==
    pc \in {"shaped", "gapped", "loop", "thin_tail", "recompute", "done", "returned"}

\* the positions at which current_drr has been assigned
AfterMeasure == pc \in {"loop", "thin_tail", "recompute", "done", "returned"}

\* round(num / den), half away from zero, for num >= 0 and den > 0
RoundDiv(num, den) == (2 * num + den) \div (2 * den)

\* the nonzero samples of d at the 0-based positions lo..hi
NonZeroIn(d, lo, hi) == {i \in lo..hi : i + 1 \in 1..Len(d) /\ d[i + 1] # 0}

\* C1: a spec with rt60_ms <= edt_ms is rejected by every constructor before
\* any buffer is allocated: it never gets past construction into generate.
C1_BadSpecRejected ==
    args.rt60 <= args.edt => (pc \in {"start", "config_error"} /\ ~allocated)

\* C2: for rt60_ms > edt_ms > 0 (itdg, er_duration non-negative), generate
\* never panics and what it returns is non-empty.
C2_GenerateCompletes ==
    (args.rt60 > args.edt /\ args.edt > 0)
        => (pc # "panicked" /\ (pc = "returned" => Len(result) > 0))

\* C3: direct_sound_idx is the smallest index at which the post-envelope
\* energy buffer takes its global maximum.
C3_FirstMaximum ==
    (AfterShaping /\ Len(shaped) > 0)
        => /\ \A j \in 1..Len(shaped) : shaped[j] <= shaped[dsi + 1]
           /\ \A j \in 1..dsi : shaped[j] < shaped[dsi + 1]

\* the sample count the claim gives for the gap: round(itdg_ms / 1000 * sample_rate)
ClaimedItdgSamples == RoundDiv(args.itdg * sample_rate, 10000)

\* the sample count each generator computes for the gap:
\*   improved: round(round(itdg_ms) / 1000 * sample_rate)
\*   basic:    round(itdg_ms * sample_rate)
CodeItdgSamples ==
    IF variant = "improved"
    THEN RoundDiv(RoundDiv(args.itdg, 10) * sample_rate, 1000)
    ELSE RoundDiv(args.itdg * sample_rate, 10)

ThinLo == IF pc = "loop" THEN ersi ELSE erei
ThinHi == IF pc = "loop" THEN erei ELSE Len(data) - 1
ThinRateDen == IF pc = "loop" THEN 8 ELSE 10

\* the 0-based positions at which a step changes the buffer
Changed == {i \in 0..(Len(data) - 1) : data'[i + 1] # data[i + 1]}

\* C5: one call of thin_out_reflections over [start, end] with rate r turns
\* exactly round(r * k) samples from nonzero to zero, k the number of
\* nonzero samples of the range; they lie in the range, no other sample
\* changes, and with round(r * k) = 0 the call changes nothing and does
\* not fail.
C5_ThinExact ==
    [][thin_calls' = thin_calls + 1 =>
        LET rays == NonZeroIn(data, ThinLo, ThinHi)
            n    == RoundDiv(Cardinality(rays), ThinRateDen)
        IN  /\ pc' # "panicked"
            /\ Len(data') = Len(data)
            /\ Changed \subseteq rays
            /\ \A i \in Changed : data'[i + 1] = 0
            /\ Cardinality(Changed) = n
            /\ n <= Cardinality(rays)]_vars

\* C6: every iteration of the thinning loop either strictly decreases the
\* number of nonzero samples after the direct sound or leaves the DRR
\* unchanged and leaves the loop by the convergence break; no iteration
\* ends otherwise, so the loop ends after finitely many iterations.
C6_IterationProgress ==
    [][/\ (thin_calls' = thin_calls + 1 /\ pc' = "panicked") =>
            Cardinality(NonZeroIn(data', dsi + 1, Len(data') - 1)) < head_rays'
       /\ pc = "recompute" =>
            \/ Cardinality(NonZeroIn(data, dsi + 1, Len(data) - 1)) < head_rays
            \/ (pc' = "done" /\ current_drr' = current_drr)]_vars

\* the count of samples the spec gives for the early reflections
ClaimedErSamples == RoundDiv(args.er_duration * sample_rate, 10000)

\* C7: for a valid spec, dsi <= er_start <= er_end <= len-1, er_end = len-1
\* when er_start + er_samples exceeds the buffer length, and thinning the
\* degenerate tail zone [len-1, len-1] removes nothing and does not panic.
C7_DegenerateTail ==
    [][/\ (AfterShaping' /\ args.rt60 > args.edt) =>
            /\ dsi' <= ersi' /\ ersi' <= erei' /\ erei' <= Len(shaped') - 1
            /\ ersi' + ClaimedErSamples > Len(shaped') => erei' = Len(shaped') - 1
       /\ (pc = "thin_tail" /\ ersi + ClaimedErSamples > Len(data)
              /\ erei = Len(data) - 1) =>
            (pc' # "panicked" /\ data' = data)]_vars

\* the sum of d over the 0-based positions lo..hi
SumOver(d, lo, hi) ==
    LET idx == {i \in lo..hi : i + 1 \in 1..Len(d)}
        RECURSIVE Acc(_)
        Acc(S) == IF S = {} THEN 0
                  ELSE LET i == CHOOSE j \in S : TRUE IN d[i + 1] + Acc(S \ {i})
    IN  Acc(idx)

\* direct / reverberant of the buffer d exceeds num / den (10*log10 of it
\* exceeds the dB value); direct / 0 exceeds every bound
RatioAbove(d, num, den) ==
    LET direct == SumOver(d, 0, dsi)
        reverb == SumOver(d, dsi + 1, Len(d) - 1)
    IN  direct > 0 /\ direct * den > num * reverb

\* C8: if the DRR measured right after the gap step exceeds drr_db + 0.5,
\* no loop iteration runs, thin_out_reflections is never called and the
\* buffer stays the one the gap step left; and every call of
\* thin_out_reflections is made while current_drr < drr_db - 0.5.
C8_NoThinningAboveBand ==
    [][/\ (AfterMeasure' /\ RatioAbove(gapped', args.drr.highN, args.drr.highD)) =>
            /\ iterations' = 0
            /\ thin_calls' = 0
            /\ data' = gapped'
            /\ pc' \in {"done", "returned"}
       /\ thin_calls' # thin_calls =>
            /\ current_drr.reverberant > 0
            /\ current_drr.direct * args.drr.lowD
                 < args.drr.lowN * current_drr.reverberant]_vars

\* C8 witness: generate has returned a buffer with reverberant energy whose
\* DRR after the gap step was above the band, without any thinning
C8_Witness ==
    /\ pc = "returned"
    /\ RatioAbove(gapped, args.drr.highN, args.drr.highD)
    /\ SumOver(gapped, dsi + 1, Len(gapped) - 1) > 0
    /\ gapped # shaped
    /\ thin_calls = 0

\* C9: for a valid spec, when the energy after the direct sound sums to zero
\* at a DRR computation, the loop is skipped or left without further removal and
\* current_drr never holds an infinite or NaN value.
C9_ZeroReverberantHandled ==
    (AfterMeasure /\ args.rt60 > args.edt) =>
        /\ (pc \in {"loop", "done", "returned"}
              /\ SumOver(data, dsi + 1, Len(data) - 1) = 0) => pc # "loop"
        /\ current_drr.reverberant # 0

\* C10: the thinning stage never modifies a sample at an index <= dsi, and
\* generate returns len - dsi samples whose first one is the direct sound
\* with its post-envelope value, strictly positive and the largest returned.
C10_DirectSoundKept ==
    /\ (pc \in {"gapped", "loop", "thin_tail", "recompute", "done", "returned"}
            /\ Len(shaped) > 0) =>
          /\ Len(data) = Len(shaped)
          /\ \A i \in 0..dsi : data[i + 1] = shaped[i + 1]
    /\ pc = "returned" =>
          /\ Len(result) = Len(shaped) - dsi
          /\ Len(shaped) > 0 =>
                /\ result[1] = shaped[dsi + 1]
                /\ result[1] > 0
                /\ \A j \in 1..Len(result) : result[j] <= result[1]

\* C10 witness: generate has returned after thinning removed reflections
C10_Witness ==
    /\ pc = "returned"
    /\ iterations >= 1
    /\ data # gapped
    /\ Len(result) >= 2

\* C10 witness of the clamped window: the direct sound is the last sample,
\* so er_start = direct_sound_idx, and generate has returned
C10_WitnessClamped ==
    /\ pc = "returned"
    /\ Len(shaped) >= 2
    /\ dsi = Len(shaped) - 1
    /\ ersi = dsi

====
